---------------------------- MODULE Spec2Model ----------------------------
(***************************************************************************)
(* lamar: generic fixed-arity vectors Vec2<T>, Vec3<T>, Vec4<T>            *)
(* (src/src/vector/vec2.rs, vec3.rs, vec4.rs).                             *)
(*                                                                         *)
(* The library is a set of pure functions.  The state machine below is a   *)
(* client that makes one library call per step: the state records the      *)
(* call (operation, arity, element type, operands) and what it returned.   *)
(* The element type T is instantiated at i16 (a checked integer type) and  *)
(* at f32.  overflowChecks is the build profile: rustc traps on integer    *)
(* overflow when overflow checks are on (debug) and wraps when they are    *)
(* off (release).                                                          *)
(***************************************************************************)
EXTENDS Integers, Sequences, FiniteSets, TLC

VARIABLES overflowChecks, T, n, op, self, other, origin, out

vars == <<overflowChecks, T, n, op, self, other, origin, out>>

(***************************************************************************)
(* Bounds of the model.                                                    *)
(***************************************************************************)
\* ordinary operand components range over 0..MaxMag
MaxMag == 1

(***************************************************************************)
(* Element type i16: T: Num + Copy instantiated at a 16-bit integer.       *)
(***************************************************************************)
Bits == 16

Modulus == 2^Bits

I16Min == -(2^(Bits - 1))

I16Max == 2^(Bits - 1) - 1

\* marker of an evaluation that panicked; it lies outside I16Min..I16Max
Trap == Modulus

InRange(r) == r >= I16Min /\ r <= I16Max

\* two's complement wrap-around of an out-of-range result
Wrap(r) == ((r - I16Min) % Modulus) + I16Min

\* the result of an arithmetic step whose mathematical value is r
Chk(r) == IF InRange(r) THEN r ELSE IF overflowChecks THEN Trap ELSE Wrap(r)

I16Add(a, b) == IF a = Trap \/ b = Trap THEN Trap ELSE Chk(a + b)

I16Sub(a, b) == IF a = Trap \/ b = Trap THEN Trap ELSE Chk(a - b)

I16Mul(a, b) == IF a = Trap \/ b = Trap THEN Trap ELSE Chk(a * b)

Abs(a) == IF a < 0 THEN -a ELSE a

\* Rust's integer division truncates toward zero
TruncDiv(a, b) == IF (a < 0) = (b < 0) THEN Abs(a) \div Abs(b) ELSE -(Abs(a) \div Abs(b))

\* a / b panics on a zero divisor and on I16Min / -1, in every build profile
I16Div(a, b) ==
    IF a = Trap \/ b = Trap THEN Trap
    ELSE IF b = 0 THEN Trap
    ELSE IF a = I16Min /\ b = -1 THEN Trap
    ELSE TruncDiv(a, b)

(***************************************************************************)
(* Element type f32, on the values the model draws: NaN, the infinities    *)
(* and integer-valued finite numbers.  A finite result is rounded to the   *)
(* 24-bit significand, ties to even.  +0.0 and -0.0 are one value here:    *)
(* == does not tell them apart.                                            *)
(***************************************************************************)
RECURSIVE Ulp(_)
Ulp(m) == IF m < 2^24 THEN 1 ELSE 2 * Ulp(m \div 2)

RoundMag(m) ==
    LET u == Ulp(m)
        q == m \div u
        r == m % u
    IN  IF 2 * r < u THEN q * u
        ELSE IF 2 * r > u THEN (q + 1) * u
        ELSE (q + (q % 2)) * u

F32Round(i) == IF i < 0 THEN -RoundMag(-i) ELSE RoundMag(i)

F32Nan == [cls |-> "nan", v |-> 0]

F32Inf(sgn) == [cls |-> "inf", v |-> sgn]

F32Fin(i) == [cls |-> "fin", v |-> F32Round(i)]

F32Neg(a) == IF a.cls = "nan" THEN a ELSE [cls |-> a.cls, v |-> -a.v]

F32Add(a, b) ==
    IF a.cls = "nan" \/ b.cls = "nan" THEN F32Nan
    ELSE IF a.cls = "inf" /\ b.cls = "inf" THEN (IF a.v = b.v THEN a ELSE F32Nan)
    ELSE IF a.cls = "inf" THEN a
    ELSE IF b.cls = "inf" THEN b
    ELSE F32Fin(a.v + b.v)

F32Sub(a, b) == F32Add(a, F32Neg(b))

\* IEEE equality: NaN equals nothing, itself included
F32Eq(a, b) == a.cls # "nan" /\ b.cls # "nan" /\ a = b

(***************************************************************************)
(* The operators of the generic element type T.                            *)
(***************************************************************************)
ElemTypes == {"i16", "f32"}

TAdd(t, a, b) == IF t = "f32" THEN F32Add(a, b) ELSE I16Add(a, b)

TSub(t, a, b) == IF t = "f32" THEN F32Sub(a, b) ELSE I16Sub(a, b)

TEq(t, a, b) == IF t = "f32" THEN F32Eq(a, b) ELSE a = b

Trapped(t, a) == t = "i16" /\ a = Trap

(***************************************************************************)
(* Vectors are records with the struct's field names.  A struct literal    *)
(* whose field expression panicked yields no vector: the call unwinds.     *)
(***************************************************************************)
Unwound == [panic |-> TRUE]

Fields(k) == SubSeq(<<"x", "y", "z", "w">>, 1, k)

Vec2Self(t, x, y) ==
    IF Trapped(t, x) \/ Trapped(t, y) THEN Unwound ELSE [x |-> x, y |-> y]

Vec3Self(t, x, y, z) ==
    IF Trapped(t, x) \/ Trapped(t, y) \/ Trapped(t, z) THEN Unwound
    ELSE [x |-> x, y |-> y, z |-> z]

Vec4Self(t, x, y, z, w) ==
    IF Trapped(t, x) \/ Trapped(t, y) \/ Trapped(t, z) \/ Trapped(t, w) THEN Unwound
    ELSE [x |-> x, y |-> y, z |-> z, w |-> w]

(***************************************************************************)
(* Vec2<T>  (src/src/vector/vec2.rs)                                       *)
(***************************************************************************)
Vec2New(x, y) == [x |-> x, y |-> y]

Vec2Dot(a, rhs) == I16Add(I16Mul(a.x, rhs.x), I16Mul(a.y, rhs.y))

Vec2Cross(a, rhs) == I16Sub(I16Mul(a.x, rhs.y), I16Mul(a.y, rhs.x))

Vec2Zero == [x |-> F32Fin(0), y |-> F32Fin(0)]

Vec2Add(t, a, b) == Vec2Self(t, TAdd(t, a.x, b.x), TAdd(t, a.y, b.y))

Vec2AddScalar(t, a, s) == Vec2Self(t, TAdd(t, a.x, s), TAdd(t, a.y, s))

Vec2Sub(t, a, b) == Vec2Self(t, TSub(t, a.x, b.x), TSub(t, a.y, b.y))

Vec2SubScalar(t, a, s) == Vec2Self(t, TSub(t, a.x, s), TSub(t, a.y, s))

\* mutant: * taken for the other scalar product of two vectors
Vec2MulAsDot(a, b) == Vec2Dot(a, b)

Vec2Mul(a, b) == Vec2Cross(a, b)

Vec2MulScalar(a, s) == Vec2Self("i16", I16Mul(a.x, s), I16Mul(a.y, s))

\* mutant: a zero divisor masked, the operand handed back unchanged
Vec2DivScalarGuarded(a, s) ==
    IF s = 0 THEN a ELSE Vec2Self("i16", I16Div(a.x, s), I16Div(a.y, s))

Vec2DivScalar(a, s) == Vec2Self("i16", I16Div(a.x, s), I16Div(a.y, s))

Vec2Eq(t, a, b) == TEq(t, a.x, b.x) /\ TEq(t, a.y, b.y)

(***************************************************************************)
(* Vec3<T>  (src/src/vector/vec3.rs)                                       *)
(***************************************************************************)
Vec3New(x, y, z) == [x |-> x, y |-> y, z |-> z]

\* mutant: the formula of dot's doc comment, a.x * b.x + a.y + b.y
Vec3DotAsDocumented(a, rhs) == I16Add(I16Add(I16Mul(a.x, rhs.x), a.y), rhs.y)

Vec3Dot(a, rhs) ==
    I16Add(I16Add(I16Mul(a.x, rhs.x), I16Mul(a.y, rhs.y)), I16Mul(a.z, rhs.z))

\* mutant: the operands of every term swapped (the left-handed product)
Vec3CrossSwapped(a, rhs) ==
    Vec3Self("i16",
             I16Sub(I16Mul(a.z, rhs.y), I16Mul(a.y, rhs.z)),
             I16Sub(I16Mul(a.x, rhs.z), I16Mul(a.z, rhs.x)),
             I16Sub(I16Mul(a.y, rhs.x), I16Mul(a.x, rhs.y)))

\* mutant: the x component adds its two terms
Vec3CrossPlus(a, rhs) ==
    Vec3Self("i16",
             I16Add(I16Mul(a.y, rhs.z), I16Mul(a.z, rhs.y)),
             I16Sub(I16Mul(a.z, rhs.x), I16Mul(a.x, rhs.z)),
             I16Sub(I16Mul(a.x, rhs.y), I16Mul(a.y, rhs.x)))

Vec3Cross(a, rhs) ==
    Vec3Self("i16",
             I16Sub(I16Mul(a.y, rhs.z), I16Mul(a.z, rhs.y)),
             I16Sub(I16Mul(a.z, rhs.x), I16Mul(a.x, rhs.z)),
             I16Sub(I16Mul(a.x, rhs.y), I16Mul(a.y, rhs.x)))

Vec3Add(t, a, b) ==
    Vec3Self(t, TAdd(t, a.x, b.x), TAdd(t, a.y, b.y), TAdd(t, a.z, b.z))

Vec3AddScalar(t, a, s) ==
    Vec3Self(t, TAdd(t, a.x, s), TAdd(t, a.y, s), TAdd(t, a.z, s))

Vec3Sub(t, a, b) ==
    Vec3Self(t, TSub(t, a.x, b.x), TSub(t, a.y, b.y), TSub(t, a.z, b.z))

Vec3SubScalar(t, a, s) ==
    Vec3Self(t, TSub(t, a.x, s), TSub(t, a.y, s), TSub(t, a.z, s))

Vec3Mul(a, b) == Vec3Cross(a, b)

Vec3MulScalar(a, s) ==
    Vec3Self("i16", I16Mul(a.x, s), I16Mul(a.y, s), I16Mul(a.z, s))

\* mutant: z computed from y
Vec3DivScalarSkewed(a, s) ==
    Vec3Self("i16", I16Div(a.x, s), I16Div(a.y, s), I16Div(a.y, s))

Vec3DivScalar(a, s) ==
    Vec3Self("i16", I16Div(a.x, s), I16Div(a.y, s), I16Div(a.z, s))

Vec3Eq(t, a, b) == TEq(t, a.x, b.x) /\ TEq(t, a.y, b.y) /\ TEq(t, a.z, b.z)

(***************************************************************************)
(* Vec4<T>  (src/src/vector/vec4.rs)                                       *)
(***************************************************************************)
Vec4New(x, y, z, w) == [x |-> x, y |-> y, z |-> z, w |-> w]

Vec4Dot(a, rhs) ==
    I16Add(I16Add(I16Add(I16Mul(a.x, rhs.x), I16Mul(a.y, rhs.y)),
                  I16Mul(a.z, rhs.z)),
           I16Mul(a.w, rhs.w))

\* mutant: w initialised to 1.0
Vec4ZeroBadW == [x |-> F32Fin(0), y |-> F32Fin(0), z |-> F32Fin(0), w |-> F32Fin(1)]

Vec4Zero == [x |-> F32Fin(0), y |-> F32Fin(0), z |-> F32Fin(0), w |-> F32Fin(0)]

\* mutant: w takes the other operand's z
Vec4AddSkewed(t, a, b) ==
    Vec4Self(t, TAdd(t, a.x, b.x), TAdd(t, a.y, b.y), TAdd(t, a.z, b.z),
             TAdd(t, a.w, b.z))

Vec4Add(t, a, b) ==
    Vec4Self(t, TAdd(t, a.x, b.x), TAdd(t, a.y, b.y), TAdd(t, a.z, b.z),
             TAdd(t, a.w, b.w))

Vec4AddScalar(t, a, s) ==
    Vec4Self(t, TAdd(t, a.x, s), TAdd(t, a.y, s), TAdd(t, a.z, s), TAdd(t, a.w, s))

Vec4Sub(t, a, b) ==
    Vec4Self(t, TSub(t, a.x, b.x), TSub(t, a.y, b.y), TSub(t, a.z, b.z),
             TSub(t, a.w, b.w))

Vec4SubScalar(t, a, s) ==
    Vec4Self(t, TSub(t, a.x, s), TSub(t, a.y, s), TSub(t, a.z, s), TSub(t, a.w, s))

Vec4MulScalar(a, s) ==
    Vec4Self("i16", I16Mul(a.x, s), I16Mul(a.y, s), I16Mul(a.z, s), I16Mul(a.w, s))

\* mutant: w computed from z
Vec4DivScalarSkewed(a, s) ==
    Vec4Self("i16", I16Div(a.x, s), I16Div(a.y, s), I16Div(a.z, s), I16Div(a.z, s))

Vec4DivScalar(a, s) ==
    Vec4Self("i16", I16Div(a.x, s), I16Div(a.y, s), I16Div(a.z, s), I16Div(a.w, s))

Vec4Eq(t, a, b) ==
    TEq(t, a.x, b.x) /\ TEq(t, a.y, b.y) /\ TEq(t, a.z, b.z) /\ TEq(t, a.w, b.w)

(***************************************************************************)
(* Display.  A string is a sequence of characters; "{}" formats its        *)
(* argument with the element type's own Display.                           *)
(***************************************************************************)
DigitChars == <<"0", "1", "2", "3", "4", "5", "6", "7", "8", "9">>

RECURSIVE ShowNat(_)
ShowNat(i) ==
    IF i < 10 THEN <<DigitChars[i + 1]>>
    ELSE ShowNat(i \div 10) \o <<DigitChars[(i % 10) + 1]>>

ShowInt(i) == IF i < 0 THEN <<"-">> \o ShowNat(-i) ELSE ShowNat(i)

ShowF32(a) ==
    IF a.cls = "nan" THEN <<"N", "a", "N">>
    ELSE IF a.cls = "inf" THEN (IF a.v < 0 THEN <<"-">> ELSE <<>>) \o <<"i", "n", "f">>
    ELSE ShowInt(a.v)

Show(t, a) == IF t = "f32" THEN ShowF32(a) ELSE ShowInt(a)

\* write!(f, "x: {}\ny: {}", self.x, self.y)
Vec2Fmt(t, a) ==
    <<"x", ":", " ">> \o Show(t, a.x) \o <<"\n", "y", ":", " ">> \o Show(t, a.y)

\* write!(f, "x: {}, y: {}", self.x, self.y)
Vec3Fmt(t, a) ==
    <<"x", ":", " ">> \o Show(t, a.x) \o <<",", " ", "y", ":", " ">> \o Show(t, a.y)

\* write!(f, "x: {}\ny: {}\nz: {}\nw: {}", self.x, self.y, self.z, self.w)
Vec4Fmt(t, a) ==
    <<"x", ":", " ">> \o Show(t, a.x) \o <<"\n", "y", ":", " ">> \o Show(t, a.y)
        \o <<"\n", "z", ":", " ">> \o Show(t, a.z)
        \o <<"\n", "w", ":", " ">> \o Show(t, a.w)

(***************************************************************************)
(* The operation of each arity (the re-exports of src/src/vector/mod.rs).   *)
(***************************************************************************)
Arities == {2, 3, 4}

VecAdd(k, t, a, b) ==
    CASE k = 2 -> Vec2Add(t, a, b) [] k = 3 -> Vec3Add(t, a, b) [] k = 4 -> Vec4Add(t, a, b)

VecSub(k, t, a, b) ==
    CASE k = 2 -> Vec2Sub(t, a, b) [] k = 3 -> Vec3Sub(t, a, b) [] k = 4 -> Vec4Sub(t, a, b)

VecAddScalar(k, t, a, s) ==
    CASE k = 2 -> Vec2AddScalar(t, a, s) [] k = 3 -> Vec3AddScalar(t, a, s)
      [] k = 4 -> Vec4AddScalar(t, a, s)

VecSubScalar(k, t, a, s) ==
    CASE k = 2 -> Vec2SubScalar(t, a, s) [] k = 3 -> Vec3SubScalar(t, a, s)
      [] k = 4 -> Vec4SubScalar(t, a, s)

VecMulScalar(k, a, s) ==
    CASE k = 2 -> Vec2MulScalar(a, s) [] k = 3 -> Vec3MulScalar(a, s)
      [] k = 4 -> Vec4MulScalar(a, s)

VecDivScalar(k, a, s) ==
    CASE k = 2 -> Vec2DivScalar(a, s) [] k = 3 -> Vec3DivScalar(a, s)
      [] k = 4 -> Vec4DivScalar(a, s)

VecDot(k, a, b) ==
    CASE k = 2 -> Vec2Dot(a, b) [] k = 3 -> Vec3Dot(a, b) [] k = 4 -> Vec4Dot(a, b)

VecEq(k, t, a, b) ==
    CASE k = 2 -> Vec2Eq(t, a, b) [] k = 3 -> Vec3Eq(t, a, b) [] k = 4 -> Vec4Eq(t, a, b)

VecFmt(k, t, a) ==
    CASE k = 2 -> Vec2Fmt(t, a) [] k = 3 -> Vec3Fmt(t, a) [] k = 4 -> Vec4Fmt(t, a)

VecZero(k) == CASE k = 2 -> Vec2Zero [] k = 4 -> Vec4Zero

\* new(c, c, ..): every field the same value
Splat(k, c) ==
    CASE k = 2 -> Vec2New(c, c) [] k = 3 -> Vec3New(c, c, c) [] k = 4 -> Vec4New(c, c, c, c)

(***************************************************************************)
(* The operands the client draws.                                          *)
(***************************************************************************)
\* ordinary component values
Small(t) == IF t = "f32" THEN {F32Fin(i) : i \in 0..MaxMag} ELSE 0..MaxMag

\* component values at the edges of the element type
Edge(t) ==
    IF t = "f32" THEN {F32Nan, F32Inf(1), F32Inf(-1), F32Fin(-1), F32Fin(2^24)}
    ELSE {I16Min, -1, I16Max}

Grid(t, k) ==
    CASE k = 2 -> {Vec2New(x, y) : x \in Small(t), y \in Small(t)}
      [] k = 3 -> {Vec3New(x, y, z) : x \in Small(t), y \in Small(t), z \in Small(t)}
      [] k = 4 -> {Vec4New(x, y, z, w) :
                       x \in Small(t), y \in Small(t), z \in Small(t), w \in Small(t)}

\* the vectors of the library's own tests
Fixtures(t, k) ==
    IF t = "f32" THEN {}
    ELSE CASE k = 2 -> {Vec2New(32, 64), Vec2New(12, 10)}
           [] k = 3 -> {Vec3New(2, 4, 8), Vec3New(16, 32, 64), Vec3New(5, 10, 15),
                        Vec3New(3, 1, 7), Vec3New(32, 64, 128)}
           [] k = 4 -> {Vec4New(2, 4, 8, 10), Vec4New(16, 32, 64, 100),
                        Vec4New(32, 64, 128, 10), Vec4New(32, 64, 128, 12)}

FieldSet(k) == {Fields(k)[i] : i \in 1..k}

Inputs(t, k) ==
    Grid(t, k)
      \cup {[Splat(k, c) EXCEPT ![f] = e] : c \in Small(t), f \in FieldSet(k), e \in Edge(t)}
      \cup {Splat(k, e) : e \in Edge(t)}
      \cup Fixtures(t, k)

\* the scalars of the library's own tests
FixtureScalars(t) == IF t = "f32" THEN {} ELSE {4, 10}

Scalars(t) == Small(t) \cup Edge(t) \cup FixtureScalars(t)

(***************************************************************************)
(* The client, written like one of the library's tests: it makes one call  *)
(* on operands it draws and keeps the result.  op is the call made, n and  *)
(* T its arity and element type, self and other its operands, out what it  *)
(* returned.  origin is                                                    *)
(* the operand of the multiplication whose product is being divided, when  *)
(* the call is the division in (a * s) / s.                                *)
(***************************************************************************)
NoArg == [none |-> TRUE]

Panicked == [tag |-> "panic"]

\* what a call that evaluates to a vector (or unwinds) leaves the caller with
RetVec(r) == IF r = Unwound THEN Panicked ELSE [tag |-> "vec", v |-> r]

\* what a call that evaluates to an i16 (or unwinds) leaves the caller with
RetScalar(r) == IF r = Trap THEN Panicked ELSE [tag |-> "scalar", v |-> r]

\* a run of the client is one call on fresh operands
Fresh == op = "start"

Call(o, k, t, a, b, r) ==
    /\ op' = o
    /\ n' = k
    /\ T' = t
    /\ self' = a
    /\ other' = b
    /\ out' = r
    /\ origin' = NoArg
    /\ UNCHANGED overflowChecks

Init ==
    /\ overflowChecks \in BOOLEAN
    /\ T = "i16"
    /\ n = 2
    /\ op = "start"
    /\ self = NoArg
    /\ other = NoArg
    /\ origin = NoArg
    /\ out = [tag |-> "none"]

New ==
    /\ Fresh
    /\ \E t \in ElemTypes :
         \/ \E x \in Small(t) \cup Edge(t), y \in Small(t) \cup Edge(t) :
               Call("new", 2, t, NoArg, <<x, y>>, RetVec(Vec2New(x, y)))
         \/ \E x \in Small(t) \cup Edge(t), y \in Small(t) \cup Edge(t),
               z \in Small(t) \cup Edge(t) :
               Call("new", 3, t, NoArg, <<x, y, z>>, RetVec(Vec3New(x, y, z)))
         \/ \E x \in Small(t) \cup Edge(t), y \in Small(t) \cup Edge(t),
               z \in Small(t) \cup Edge(t), w \in Small(t) \cup Edge(t) :
               Call("new", 4, t, NoArg, <<x, y, z, w>>, RetVec(Vec4New(x, y, z, w)))

\* zero() exists for Vec2<f32> and Vec4<f32> only
Zero ==
    /\ Fresh
    /\ \E k \in {2, 4} : Call("zero", k, "f32", NoArg, NoArg, RetVec(VecZero(k)))

Dot ==
    /\ Fresh
    /\ \E k \in Arities : \E a \in Inputs("i16", k), b \in Inputs("i16", k) :
           Call("dot", k, "i16", a, b, RetScalar(VecDot(k, a, b)))

\* Vec2::cross returns a scalar, Vec3::cross a vector; Vec4 has none
Cross ==
    /\ Fresh
    /\ \/ \E a \in Inputs("i16", 2), b \in Inputs("i16", 2) :
             Call("cross", 2, "i16", a, b, RetScalar(Vec2Cross(a, b)))
       \/ \E a \in Inputs("i16", 3), b \in Inputs("i16", 3) :
             Call("cross", 3, "i16", a, b, RetVec(Vec3Cross(a, b)))

\* vector * vector, defined for Vec2 and Vec3 only
Mul ==
    /\ Fresh
    /\ \/ \E a \in Inputs("i16", 2), b \in Inputs("i16", 2) :
             Call("mul", 2, "i16", a, b, RetScalar(Vec2Mul(a, b)))
       \/ \E a \in Inputs("i16", 3), b \in Inputs("i16", 3) :
             Call("mul", 3, "i16", a, b, RetVec(Vec3Mul(a, b)))

Add ==
    /\ Fresh
    /\ \E k \in Arities, t \in ElemTypes : \E a \in Inputs(t, k), b \in Inputs(t, k) :
           Call("add", k, t, a, b, RetVec(VecAdd(k, t, a, b)))

Sub ==
    /\ Fresh
    /\ \E k \in Arities, t \in ElemTypes : \E a \in Inputs(t, k), b \in Inputs(t, k) :
           Call("sub", k, t, a, b, RetVec(VecSub(k, t, a, b)))

AddScalar ==
    /\ Fresh
    /\ \E k \in Arities, t \in ElemTypes : \E a \in Inputs(t, k), s \in Scalars(t) :
           Call("add_scalar", k, t, a, s, RetVec(VecAddScalar(k, t, a, s)))

SubScalar ==
    /\ Fresh
    /\ \E k \in Arities, t \in ElemTypes : \E a \in Inputs(t, k), s \in Scalars(t) :
           Call("sub_scalar", k, t, a, s, RetVec(VecSubScalar(k, t, a, s)))

MulScalar ==
    /\ Fresh
    /\ \E k \in Arities : \E a \in Inputs("i16", k), s \in Scalars("i16") :
           Call("mul_scalar", k, "i16", a, s, RetVec(VecMulScalar(k, a, s)))

DivScalar ==
    /\ Fresh
    /\ \E k \in Arities : \E a \in Inputs("i16", k), s \in Scalars("i16") :
           Call("div_scalar", k, "i16", a, s, RetVec(VecDivScalar(k, a, s)))

\* (a * s) / s: the product a multiplication returned, divided by its scalar
DivProduct ==
    /\ op = "mul_scalar"
    /\ out.tag = "vec"
    /\ op' = "div_scalar"
    /\ self' = out.v
    /\ origin' = self
    /\ out' = RetVec(VecDivScalar(n, out.v, other))
    /\ UNCHANGED <<overflowChecks, T, n, other>>

Eq ==
    /\ Fresh
    /\ \E k \in Arities, t \in ElemTypes : \E a \in Inputs(t, k), b \in Inputs(t, k) :
           Call("eq", k, t, a, b, [tag |-> "bool", v |-> VecEq(k, t, a, b)])

Fmt ==
    /\ Fresh
    /\ \E k \in Arities, t \in ElemTypes : \E a \in Inputs(t, k) :
           Call("fmt", k, t, a, NoArg, [tag |-> "str", v |-> VecFmt(k, t, a)])

Next ==
    \/ New
    \/ Zero
    \/ Dot
    \/ Cross
    \/ Mul
    \/ Add
    \/ Sub
    \/ AddScalar
    \/ SubScalar
    \/ MulScalar
    \/ DivScalar
    \/ DivProduct
    \/ Eq
    \/ Fmt

Spec == Init /\ [][Next]_vars

(***************************************************************************)
(* Properties.                                                             *)
(***************************************************************************)
\* the separators a human-readable listing may put between two fields
Separators == {<<>>, <<",", " ">>, <<"\n">>}

\* "name: value" for one field
FieldText(name, t, val) == <<name, ":", " ">> \o Show(t, val)

\* str lists the fields fs of a, each with its name and value, in order, and
\* nothing else
RECURSIVE Enumerated(_, _, _, _)
Enumerated(str, t, a, fs) ==
    IF fs = <<>> THEN str = <<>>
    ELSE \E sep \in Separators :
            LET pre == sep \o FieldText(Head(fs), t, a[Head(fs)])
            IN  /\ Len(str) >= Len(pre)
                /\ SubSeq(str, 1, Len(pre)) = pre
                /\ Enumerated(SubSeq(str, Len(pre) + 1, Len(str)), t, a, Tail(fs))

\* C1: formatting a vector of any arity lists every field with its name, in
\* declared order (x, y / x, y, z / x, y, z, w); no field is omitted.
C1_FmtEnumeratesFields ==
    op = "fmt" => Enumerated(out.v, T, self, Fields(n))

\* the same for Vec2 and Vec4 alone, whose Display lists every field
C1_FmtVec2Vec4 ==
    (op = "fmt" /\ n # 3) => Enumerated(out.v, T, self, Fields(n))

\* an i16 expression whose steps have the exact values in steps panics
\* exactly when overflow is checked and a step is out of range
Evaluates(res, steps) ==
    IF overflowChecks /\ \E i \in steps : ~InRange(i) THEN res = Panicked
    ELSE res.tag \in {"scalar", "vec"}

\* the exact cross product terms of a and b
CrossTerms(a, b) ==
    [x |-> <<a.y * b.z, a.z * b.y>>,
     y |-> <<a.z * b.x, a.x * b.z>>,
     z |-> <<a.x * b.y, a.y * b.x>>]

C3_Vec2CrossFormula ==
    (op \in {"cross", "mul"} /\ n = 2) =>
        LET p == self.x * other.y
            q == self.y * other.x
        IN  /\ Evaluates(out, {p, q, p - q})
            /\ out.tag # "vec"
            /\ out.tag = "scalar" => out.v = Wrap(p - q)

C3_Witness ==
    /\ op = "mul"
    /\ n = 2
    /\ self = Vec2New(32, 64)
    /\ other = Vec2New(12, 10)
    /\ out = [tag |-> "scalar", v |-> -448]

\* the sum of a.f * b.f over the fields fs, added up from the left
RECURSIVE SumOfProducts(_, _, _)
SumOfProducts(fs, a, b) ==
    IF Len(fs) = 1 THEN I16Mul(a[fs[1]], b[fs[1]])
    ELSE I16Add(SumOfProducts(SubSeq(fs, 1, Len(fs) - 1), a, b),
                I16Mul(a[fs[Len(fs)]], b[fs[Len(fs)]]))

OutVec(res) == IF res = Panicked THEN Unwound ELSE res.v

\* the element type's negation, 0 - a
I16Neg(a) == I16Sub(0, a)

OutcomeEq(k, t, r1, r2) ==
    IF r1 = Unwound \/ r2 = Unwound THEN r1 = r2 ELSE VecEq(k, t, r1, r2)

\* r + c and a + r, for r the outcome of an earlier evaluation
AddTo(k, t, r, c) == IF r = Unwound THEN Unwound ELSE VecAdd(k, t, r, c)

AddFrom(k, t, a, r) == IF r = Unwound THEN Unwound ELSE VecAdd(k, t, a, r)

\* C6 as stated: for all vectors a, b, c of one arity and element type,
\* a + b == b + a and (a + b) + c == a + (b + c).
C6_AddCommAssocAlways ==
    op = "add" =>
        LET ab == OutVec(out)
        IN  /\ OutcomeEq(n, T, ab, VecAdd(n, T, other, self))
            /\ \A c \in Inputs(T, n) :
                   OutcomeEq(n, T, AddTo(n, T, ab, c),
                             AddFrom(n, T, self, VecAdd(n, T, other, c)))

\* C6 amended: over an integer element type a + b and b + a panic together or
\* return equal vectors, and (a + b) + c == a + (b + c) whenever both sides
\* return, which they always do when overflow wraps; over f32, a + b == b + a
\* whenever no field of the sum is NaN.
C6_AddCommAssoc ==
    op = "add" =>
        LET ab == OutVec(out)
            ba == VecAdd(n, T, other, self)
        IN  IF T = "i16"
            THEN /\ OutcomeEq(n, T, ab, ba)
                 /\ \A c \in Inputs(T, n) :
                        LET l == AddTo(n, T, ab, c)
                            r == AddFrom(n, T, self, VecAdd(n, T, other, c))
                        IN  /\ ~overflowChecks => (l # Unwound /\ r # Unwound)
                            /\ (l # Unwound /\ r # Unwound) => VecEq(n, T, l, r)
            ELSE (\A f \in FieldSet(n) : ab[f].cls # "nan") => VecEq(n, T, ab, ba)

C6_Witness ==
    /\ op = "add"
    /\ T = "i16"
    /\ n = 4
    /\ self = Vec4New(2, 4, 8, 10)
    /\ other = Vec4New(16, 32, 64, 100)
    /\ out = [tag |-> "vec", v |-> Vec4New(18, 36, 72, 110)]
    /\ VecAdd(4, T, VecAdd(4, T, self, other), Vec4New(32, 64, 128, 12))
         = VecAdd(4, T, self, VecAdd(4, T, other, Vec4New(32, 64, 128, 12)))

\* C7 as stated: for every vector a over a bounded integer type and every
\* non-zero scalar s, (a * s) / s == a.
C7_RoundTripAlways ==
    /\ (op = "mul_scalar" /\ other # 0) => out.tag = "vec"
    /\ (op = "div_scalar" /\ origin # NoArg /\ other # 0) =>
           out = [tag |-> "vec", v |-> origin]

\* C7 amended: for every vector a over a bounded integer type and every
\* non-zero scalar s such that no product a.field * s overflows the element
\* type, (a * s) / s == a.
C7_RoundTripNoOverflow ==
    /\ (op = "mul_scalar" /\ \A f \in FieldSet(n) : InRange(self[f] * other)) =>
           out.tag = "vec"
    /\ (/\ op = "div_scalar"
        /\ origin # NoArg
        /\ other # 0
        /\ \A f \in FieldSet(n) : InRange(origin[f] * other)) =>
           out = [tag |-> "vec", v |-> origin]

C7_Witness ==
    /\ op = "div_scalar"
    /\ n = 3
    /\ origin = Vec3New(32, 64, 128)
    /\ other = 10
    /\ self = Vec3New(320, 640, 1280)
    /\ out = [tag |-> "vec", v |-> Vec3New(32, 64, 128)]

\* every field of the f32 vector a is 0.0
AllZero(k, a) == \A f \in FieldSet(k) : a[f] = F32Fin(0)

\* every field of the f32 vector a is finite
AllFinite(k, a) == \A f \in FieldSet(k) : a[f].cls = "fin"

\* C8 as stated: zero() of Vec2<f32> and Vec4<f32> has every field 0.0, and
\* for every vector a of that type, non-finite fields included,
\* a + zero() == a and a - a == zero().
C8_ZeroIdentityAlways ==
    /\ op = "zero" => (out.tag = "vec" /\ AllZero(n, out.v))
    /\ (op = "add" /\ T = "f32" /\ n \in {2, 4} /\ other = VecZero(n)) =>
           VecEq(n, T, out.v, self)
    /\ (op = "sub" /\ T = "f32" /\ n \in {2, 4} /\ other = self) =>
           VecEq(n, T, out.v, VecZero(n))

\* C8 amended: zero() of Vec2<f32> and Vec4<f32> has every field 0.0, and
\* for every vector a of that type whose fields are all finite,
\* a + zero() == a and a - a == zero().
C8_ZeroIdentityFinite ==
    /\ op = "zero" => (out.tag = "vec" /\ AllZero(n, out.v))
    /\ (/\ op = "add"
        /\ T = "f32"
        /\ n \in {2, 4}
        /\ other = VecZero(n)
        /\ AllFinite(n, self)) => VecEq(n, T, out.v, self)
    /\ (op = "sub" /\ T = "f32" /\ n \in {2, 4} /\ other = self /\ AllFinite(n, self)) =>
           VecEq(n, T, out.v, VecZero(n))

C8_Witness ==
    /\ op = "sub"
    /\ T = "f32"
    /\ n = 4
    /\ other = self
    /\ self.w = F32Fin(2^24)
    /\ AllFinite(4, self)
    /\ out = [tag |-> "vec", v |-> Vec4Zero]

\* C9: dividing a vector of any arity by the scalar zero, over a checked
\* integer type, fails with the element type's division-by-zero panic in
\* every build profile; no vector is returned in its place.
C9_DivByZeroPanics ==
    (op = "div_scalar" /\ other = 0) => out = Panicked

C9_Witness ==
    /\ op = "div_scalar"
    /\ ~overflowChecks
    /\ n = 4
    /\ self = Vec4New(32, 64, 128, 12)
    /\ other = 0
    /\ out = Panicked

\* the element operation a vector operation applies to each field
ElemOp(o, t, x, y) ==
    CASE o \in {"add", "add_scalar"} -> TAdd(t, x, y)
      [] o \in {"sub", "sub_scalar"} -> TSub(t, x, y)
      [] o = "mul_scalar" -> I16Mul(x, y)
      [] o = "div_scalar" -> I16Div(x, y)

\* res is the vector whose field f is comp[f], or a panic when a field
\* operation panicked
Fieldwise(res, comp) ==
    IF \E f \in FieldSet(n) : Trapped(T, comp[f]) THEN res = Panicked
    ELSE /\ res.tag = "vec"
         /\ DOMAIN res.v = FieldSet(n)
         /\ \A f \in FieldSet(n) : res.v[f] = comp[f]

\* C10: for every arity and field, vector + vector and vector - vector give
\* result.field = lhs.field (+|-) rhs.field, and vector (+|-|*|/) scalar gives
\* result.field = field (+|-|*|/) scalar, the same scalar for every field.
C10_Elementwise ==
    /\ op \in {"add", "sub"} =>
           Fieldwise(out, [f \in FieldSet(n) |-> ElemOp(op, T, self[f], other[f])])
    /\ op \in {"add_scalar", "sub_scalar", "mul_scalar", "div_scalar"} =>
           Fieldwise(out, [f \in FieldSet(n) |-> ElemOp(op, T, self[f], other)])

C10_Witness ==
    /\ op = "div_scalar"
    /\ n = 3
    /\ origin = NoArg
    /\ self = Vec3New(32, 64, 128)
    /\ other = 4
    /\ out = [tag |-> "vec", v |-> Vec3New(8, 16, 32)]

====
